---------------------------- MODULE Spec2Model ----------------------------
(***************************************************************************)
(* Model of labs/03_neural_recsys/                                         *)
(*   Implicit_Feedback_Recsys_with_the_triplet_loss.ipynb                  *)
(*                                                                         *)
(* The notebook's functions are modelled as operators computed the way the *)
(* code computes them, and each call of a function is one action:          *)
(*   extract_year            (cell 4)   -> ExtractYear                     *)
(*   margin_comparator_loss  (cell 12)  -> LossDefaultMargin,              *)
(*                                         LossWithMargin                  *)
(*   sample_triplets         (cell 25)  -> SampleTriplets                  *)
(*   average_roc_auc         (cell 19)  -> Evaluate                        *)
(*   the training loop       (cell 27)  -> LoopSample, LoopFit,            *)
(*                                         LoopEvaluate                    *)
(*   evaluation and fit, run in any order -> RunEvaluate, RunFit           *)
(*                                                                         *)
(* Conventions.                                                            *)
(*  - A value that is not there yet (a function's result before the call)  *)
(*    is the empty sequence <<>>, a value that is there is <<v>>.          *)
(*  - A Python string is a sequence of one-character strings.              *)
(*  - A real number is an integer count of 1/SimScale units (similarities, *)
(*    margins, losses) or an exact fraction <<num, den>> (ROC AUC).        *)
(*  - A call that raises ends in a record whose outcome names the          *)
(*    exception.                                                           *)
(***************************************************************************)
EXTENDS Integers, Sequences, FiniteSets

(***************************************************************************)
(* Bounds of the model.                                                    *)
(***************************************************************************)
\* longest release-date string
MaxDateLen == 5
\* similarities range over -SimScale..SimScale, i.e. [-1, 1] in steps of 1/SimScale
SimScale == 2
\* user ids range over 1..MaxUser, item ids over 1..MaxItem
MaxUser == 2
MaxItem == 3
\* most rows of a positive-interaction table
MaxRows == 2
\* random seeds range over 0..MaxSeed
MaxSeed == 1
\* most calls of sample_triplets in one run
MaxCalls == 3
\* most evaluation and fit steps when the two are run in any order
MaxSteps == 3

VARIABLES
    \* extract_year: its argument and what the call produced
    release_date, release_year,
    \* margin_comparator_loss: its arguments and what the call produced
    inputs, margin_given, loss,
    \* the positive-interaction tables (cell 8) and the largest item id (cell 7)
    pos_data_train, pos_data_test, max_item_id,
    \* the weights of the two Embedding layers of build_models (cell 14)
    user_embedding, item_embedding,
    \* sample_triplets: the generator of the latest call, what the latest call
    \* returned, and every call so far with what it returned
    rng, triplet_inputs, calls,
    \* average_roc_auc: how the call ended
    test_auc,
    \* the training cell (cell 27): the loop variable i, where the cell stands,
    \* and the steps made on the model so far, in order
    epoch, pc, history

yearVars == <<release_date, release_year>>
lossVars == <<inputs, margin_given, loss>>
dataVars == <<pos_data_train, pos_data_test, max_item_id>>
modelVars == <<user_embedding, item_embedding>>
samplerVars == <<rng, triplet_inputs, calls>>
evalVars == <<test_auc>>
loopVars == <<epoch, pc, history>>
vars == <<yearVars, lossVars, dataVars, modelVars, samplerVars, evalVars, loopVars>>

(***************************************************************************)
(* Generic helpers.                                                        *)
(***************************************************************************)
\* every sequence over S of length at most n
SeqsUpTo(S, n) == UNION {[1..k -> S] : k \in 0..n}

(***************************************************************************)
(* extract_year (cell 4).                                                  *)
(***************************************************************************)
\* The characters release dates are built from: two digits, the separator
\* and one character that is neither.
DateChars == {"1", "9", "-", "x"}
Digits == {"1", "9"}

\* a release_date value read by pandas: a str, or the float NaN of a missing cell
StrValue(chars) == [isstr |-> TRUE, chars |-> chars]
NaNValue == [isstr |-> FALSE, chars |-> <<>>]

\* hasattr(release_date, 'split'): a str has it, a float has not
hasattr_split(v) == v.isstr

\* str.split(sep): the pieces between the separators, empty pieces kept
RECURSIVE str_split(_, _)
str_split(chars, sep) ==
    IF \A k \in DOMAIN chars : chars[k] # sep
    THEN <<chars>>
    ELSE LET first == CHOOSE k \in DOMAIN chars :
                         /\ chars[k] = sep
                         /\ \A j \in 1..(k - 1) : chars[j] # sep
         IN  <<SubSeq(chars, 1, first - 1)>>
                 \o str_split(SubSeq(chars, first + 1, Len(chars)), sep)

DigitValue(c) == IF c = "1" THEN 1 ELSE 9

RECURSIVE DecimalValue(_)
DecimalValue(chars) ==
    IF chars = <<>> THEN 0
    ELSE 10 * DecimalValue(SubSeq(chars, 1, Len(chars) - 1))
             + DigitValue(chars[Len(chars)])

\* int(s) of a str: the number it spells, or ValueError
py_int(chars) ==
    IF chars # <<>> /\ \A k \in DOMAIN chars : chars[k] \in Digits
    THEN [outcome |-> "returned", value |-> DecimalValue(chars)]
    ELSE [outcome |-> "ValueError", value |-> 0]

extract_year(v) ==
    IF hasattr_split(v)
    THEN LET components == str_split(v.chars, "-")
         IN  IF Len(components) = 3
             THEN py_int(components[3])
             ELSE [outcome |-> "returned", value |-> 1920]
    ELSE [outcome |-> "returned", value |-> 1920]

ReleaseDates == {NaNValue} \cup {StrValue(s) : s \in SeqsUpTo(DateChars, MaxDateLen)}

YearIdle == release_date = NaNValue /\ release_year = <<>>

InitYear ==
    /\ release_date \in ReleaseDates
    /\ release_year = <<>>

\* items['release_date'].map(extract_year), one cell of the column
ExtractYear ==
    /\ release_year = <<>>
    /\ release_year' = <<extract_year(release_date)>>
    /\ UNCHANGED <<release_date, lossVars, dataVars, modelVars, samplerVars, evalVars,
                   loopVars>>

(***************************************************************************)
(* margin_comparator_loss (cell 12).                                       *)
(***************************************************************************)
\* margin=1. in the signature, in 1/SimScale units
DefaultMargin == 1 * SimScale

Similarities == (0 - SimScale)..SimScale
Margins == 0..(2 * SimScale)

\* tf.maximum(x, y)
tf_maximum(x, y) == IF x >= y THEN x ELSE y

\* The mutant of margin_comparator_loss: the two similarities swapped.
margin_comparator_loss_swapped(ins, margin) ==
    LET positive_pair_sim == ins[1]
        negative_pair_sim == ins[2]
    IN  tf_maximum(positive_pair_sim - negative_pair_sim + margin, 0)

margin_comparator_loss(ins, margin) ==
    LET positive_pair_sim == ins[1]
        negative_pair_sim == ins[2]
    IN  tf_maximum(negative_pair_sim - positive_pair_sim + margin, 0)

LossIdle == inputs = <<0, 0>> /\ margin_given = <<>> /\ loss = <<>>

InitLoss ==
    /\ inputs \in Similarities \X Similarities
    /\ margin_given = <<>>
    /\ loss = <<>>

\* margin_comparator_loss(inputs): the margin is left to its default
LossDefaultMargin ==
    /\ loss = <<>>
    /\ loss' = <<margin_comparator_loss(inputs, DefaultMargin)>>
    /\ UNCHANGED <<inputs, margin_given>>
    /\ UNCHANGED <<yearVars, dataVars, modelVars, samplerVars, evalVars, loopVars>>

\* margin_comparator_loss(inputs, margin=m)
LossWithMargin(m) ==
    /\ loss = <<>>
    /\ margin_given' = <<m>>
    /\ loss' = <<margin_comparator_loss(inputs, m)>>
    /\ UNCHANGED <<inputs, yearVars, dataVars, modelVars, samplerVars, evalVars, loopVars>>

(***************************************************************************)
(* The data: positive-interaction tables (cells 3, 7, 8).                  *)
(*                                                                         *)
(* A table is a sequence of rows, each with a user_id and an item_id (the  *)
(* only columns the functions below read).                                 *)
(***************************************************************************)
Row(u, i) == [user_id |-> u, item_id |-> i]
Rows == {Row(u, i) : u \in 1..MaxUser, i \in 1..MaxItem}

\* every table of at most MaxRows rows, in any row order, repeated rows included
Tables == SeqsUpTo(Rows, MaxRows)

\* table[name].values: one column, in row order
column(table, name) == [k \in DOMAIN table |-> table[k][name]]

Range(s) == {s[k] : k \in DOMAIN s}

DataIdle == pos_data_train = <<>> /\ pos_data_test = <<>> /\ max_item_id = 1

(***************************************************************************)
(* numpy's RandomState (cell 25, used by sample_triplets).                 *)
(*                                                                         *)
(* RandomState(seed) is a generator whose state is set from the seed       *)
(* alone; each draw returns a word and moves the state on.  The Mersenne   *)
(* Twister is stood in for by a full-period congruential generator on      *)
(* 4-bit words: what the model keeps is that the state after seeding is a  *)
(* function of the seed, that a draw is a function of the state, and       *)
(* randint's masked rejection loop (numpy's rk_interval).                  *)
(***************************************************************************)
\* rk_seed: the state a seed sets
rk_seed(random_seed) == random_seed % 16

\* rk_random: the state after one draw; the word drawn is the new state
rk_random(state) == (5 * state + 3) % 16

\* the smallest 2^k - 1 that is >= top
RECURSIVE rk_mask(_, _)
rk_mask(top, mask) == IF mask >= top THEN mask ELSE rk_mask(top, 2 * mask + 1)

\* rk_interval(top, state): a value in 0..top, drawn by rejection: words are
\* masked to the bits of top and drawn again while they exceed top.  Nothing
\* is drawn when top = 0.
RECURSIVE rk_interval(_, _)
rk_interval(top, state) ==
    IF top = 0 THEN [value |-> 0, state |-> state]
    ELSE LET next == rk_random(state)
             word == next % (rk_mask(top, 0) + 1)
         IN  IF word <= top THEN [value |-> word, state |-> next]
             ELSE rk_interval(top, next)

\* The mutant of randint: high is taken as inclusive.
RECURSIVE randint_inclusive(_, _, _, _)
randint_inclusive(state, low, high, size) ==
    IF size = 0 THEN [values |-> <<>>, state |-> state]
    ELSE LET one == rk_interval(high - low, state)
             rest == randint_inclusive(one.state, low, high, size - 1)
         IN  [values |-> <<low + one.value>> \o rest.values, state |-> rest.state]

\* rng.randint(low, high, size): size values in low..high-1, drawn one after
\* the other from the generator in `state`
RECURSIVE randint(_, _, _, _)
randint(state, low, high, size) ==
    IF size = 0 THEN [values |-> <<>>, state |-> state]
    ELSE LET one == rk_interval(high - low - 1, state)
             rest == randint(one.state, low, high, size - 1)
         IN  [values |-> <<low + one.value>> \o rest.values, state |-> rest.state]

\* The mutant of RandomState: one generator is kept and shared by the calls
\* (seeded by the first call only).
RandomState_shared(random_seed) ==
    IF rng = <<>> THEN rk_seed(random_seed) ELSE rng[1]

\* np.random.RandomState(random_seed): a generator of its own, set from the seed
RandomState(random_seed) == rk_seed(random_seed)

(***************************************************************************)
(* sample_triplets (cell 25).                                              *)
(***************************************************************************)
\* The mutant of sample_triplets: the two columns are returned swapped.
sample_triplets_swapped(pos_data, top_item_id, random_seed) ==
    LET state0 == RandomState(random_seed)
        user_ids == column(pos_data, "user_id")
        pos_item_ids == column(pos_data, "item_id")
        drawn == randint(state0, 1, top_item_id + 1, Len(user_ids))
    IN  [out |-> <<pos_item_ids, user_ids, drawn.values>>, rng |-> drawn.state]

\* The mutant of sample_triplets: a negative that is the position's own
\* positive item is replaced by the next item id.
sample_triplets_avoiding(pos_data, top_item_id, random_seed) ==
    LET state0 == RandomState(random_seed)
        user_ids == column(pos_data, "user_id")
        pos_item_ids == column(pos_data, "item_id")
        drawn == randint(state0, 1, top_item_id + 1, Len(user_ids))
        neg_item_ids == [k \in DOMAIN user_ids |->
                            IF drawn.values[k] = pos_item_ids[k]
                            THEN (drawn.values[k] % top_item_id) + 1
                            ELSE drawn.values[k]]
    IN  [out |-> <<user_ids, pos_item_ids, neg_item_ids>>, rng |-> drawn.state]

\* sample_triplets(pos_data, max_item_id, random_seed): what it returns (out)
\* and the state its generator is left in (rng)
sample_triplets(pos_data, top_item_id, random_seed) ==
    LET state0 == RandomState(random_seed)
        user_ids == column(pos_data, "user_id")
        pos_item_ids == column(pos_data, "item_id")
        drawn == randint(state0, 1, top_item_id + 1, Len(user_ids))
        neg_item_ids == drawn.values
    IN  [out |-> <<user_ids, pos_item_ids, neg_item_ids>>, rng |-> drawn.state]

Seeds == 0..MaxSeed

SamplerIdle == rng = <<>> /\ triplet_inputs = <<>> /\ calls = <<>>

InitSampler ==
    /\ pos_data_train \in Tables
    /\ pos_data_test = <<>>
    /\ max_item_id \in 1..MaxItem
    /\ SamplerIdle

\* triplet_inputs = sample_triplets(pos_data_train, max_item_id, random_seed=seed)
SampleTriplets(seed) ==
    /\ Len(calls) < MaxCalls
    /\ LET r == sample_triplets(pos_data_train, max_item_id, seed)
       IN  /\ triplet_inputs' = <<r.out>>
           /\ rng' = <<r.rng>>
           /\ calls' = Append(calls, [seed |-> seed, out |-> r.out])
    /\ UNCHANGED <<dataVars, yearVars, lossVars, modelVars, evalVars, loopVars>>

(***************************************************************************)
(* The match model of build_models (cell 14).                              *)
(*                                                                         *)
(* One user Embedding and one item Embedding; the match score of a pair is *)
(* the dot product of the two L2-normalised embedding vectors (Dot with    *)
(* normalize=True).  The model keeps one coordinate per embedding, a       *)
(* non-zero integer, so that the score is the product of the two signs.    *)
(***************************************************************************)
EmbeddingWeights == {0 - 1, 1}

\* every weight table over the ids 0..top; row 0 is never looked up (ids
\* start at 1) and is held at one value
EmbeddingTables(top) == {w \in [0..top -> EmbeddingWeights] : w[0] = 1}

\* x / ||x|| of a one-coordinate vector
l2_normalize(x) == IF x > 0 THEN 1 ELSE 0 - 1

\* Dot(axes=1, normalize=True)([a, b])
cosine_similarity(a, b) == l2_normalize(a) * l2_normalize(b)

\* The mutant of match_model.predict: the prediction depends on a hidden
\* state that every step on the model moves (the sign of the score alternates).
match_model_predict_hidden_state(user_ids, item_ids) ==
    [k \in DOMAIN item_ids |->
        (IF Len(history) % 2 = 0 THEN 1 ELSE 0 - 1)
        * cosine_similarity(user_embedding[user_ids[k]], item_embedding[item_ids[k]])]

\* match_model.predict([user_ids, item_ids]): one score per position
match_model_predict(user_ids, item_ids) ==
    [k \in DOMAIN item_ids |->
        cosine_similarity(user_embedding[user_ids[k]], item_embedding[item_ids[k]])]

(***************************************************************************)
(* The triplet model of build_models (cell 14).                            *)
(*                                                                         *)
(* The layers are functions of the ids they are given and of the weights   *)
(* they hold; user_embedding and item_embedding are the weights of the two *)
(* Embedding layers.                                                       *)
(***************************************************************************)
\* user_layer(user_input): the rows of the user Embedding at the ids
user_layer(ids) == [k \in DOMAIN ids |-> user_embedding[ids[k]]]

\* item_layer(...): the rows of the item Embedding at the ids
item_layer(ids) == [k \in DOMAIN ids |-> item_embedding[ids[k]]]

\* Flatten()(item_layer(positive_item_input))
positive_item_embedding(ids) == item_layer(ids)

\* The mutant of negative_item_embedding: the negative branch has an
\* Embedding of its own, whose weights no fit step reaches.
negative_item_embedding_own_layer(ids) == [k \in DOMAIN ids |-> 1]

\* Flatten()(item_layer(negative_item_input))
negative_item_embedding(ids) == item_layer(ids)

\* Dot(axes=1, normalize=True)([a, b]) over a batch
Dot(a, b) == [k \in DOMAIN a |-> cosine_similarity(a[k], b[k])]

positive_similarity(user_ids, pos_item_ids) ==
    Dot(user_layer(user_ids), positive_item_embedding(pos_item_ids))

negative_similarity(user_ids, neg_item_ids) ==
    Dot(user_layer(user_ids), negative_item_embedding(neg_item_ids))

\* triplet_model.predict(x), x = [user_ids, pos_item_ids, neg_item_ids]: the
\* comparator loss of every triplet, in 1/SimScale units
triplet_model_predict(x) ==
    LET pos == positive_similarity(x[1], x[2])
        neg == negative_similarity(x[1], x[3])
    IN  [k \in DOMAIN x[1] |->
            margin_comparator_loss(<<SimScale * pos[k], SimScale * neg[k]>>,
                                   DefaultMargin)]

(***************************************************************************)
(* Exact fractions <<num, den>>, den > 0, in lowest terms.                 *)
(***************************************************************************)
RECURSIVE Gcd(_, _)
Gcd(a, b) == IF b = 0 THEN a ELSE Gcd(b, a % b)

Frac(num, den) == LET g == Gcd(num, den) IN <<num \div g, den \div g>>

FracAdd(x, y) == Frac(x[1] * y[2] + y[1] * x[2], x[2] * y[2])

\* sum(list) of a list of fractions, from 0
RECURSIVE py_sum(_)
py_sum(fracs) ==
    IF fracs = <<>> THEN <<0, 1>> ELSE FracAdd(Head(fracs), py_sum(Tail(fracs)))

(***************************************************************************)
(* numpy, pandas and sklearn as average_roc_auc uses them (cell 19).       *)
(***************************************************************************)
\* the float NaN, as pandas returns it for the max of an empty column
NaN == 0 - 1

\* table[name].max(): the largest value of a column, NaN when the table is empty
column_max(table, name) ==
    IF table = <<>> THEN NaN
    ELSE CHOOSE m \in Range(column(table, name)) :
            \A x \in Range(column(table, name)) : x <= m

\* Python's max(a, b): a, unless b > a; every comparison with NaN is False
py_max(a, b) == IF a # NaN /\ b # NaN /\ b > a THEN b ELSE a

\* The mutant of rows_of_user: the user filter is dropped.
rows_of_any_user(table, user_id) == table

\* table[table['user_id'] == user_id]: the rows of one user, in row order
RECURSIVE rows_of_user(_, _)
rows_of_user(table, user_id) ==
    IF table = <<>> THEN <<>>
    ELSE (IF Head(table).user_id = user_id THEN <<Head(table)>> ELSE <<>>)
             \o rows_of_user(Tail(table), user_id)

\* np.arange(start, stop)
np_arange(start, stop) == [k \in 1..(stop - start) |-> start + k - 1]

\* the values of a set in increasing order
RECURSIVE SortedSeq(_)
SortedSeq(S) ==
    IF S = {} THEN <<>>
    ELSE LET least == CHOOSE x \in S : \A y \in S : x <= y
         IN  <<least>> \o SortedSeq(S \ {least})

\* The mutant of np_setdiff1d: nothing is taken out.
np_setdiff1d_keep_all(ar1, ar2) == SortedSeq(Range(ar1))

\* np.setdiff1d(ar1, ar2): the sorted, unique values of ar1 that are not in ar2
np_setdiff1d(ar1, ar2) == SortedSeq(Range(ar1) \ Range(ar2))

\* np.in1d(ar1, ar2): for each position of ar1, whether its value is in ar2
np_in1d(ar1, ar2) == [k \in DOMAIN ar1 |-> ar1[k] \in Range(ar2)]

\* np.sum of a boolean array: how many are True
np_sum(flags) == Cardinality({k \in DOMAIN flags : flags[k]})

RECURSIVE SumOver(_, _)
SumOver(S, f) ==
    IF S = {} THEN 0
    ELSE LET x == CHOOSE y \in S : TRUE
         IN  f[x] + SumOver(S \ {x}, f)

\* The mutant of roc_auc_score: the thresholds are walked from the lowest
\* score up, which ranks the candidates in ascending order.
roc_auc_score_ascending(y_true, y_score) ==
    LET positives == {k \in DOMAIN y_true : y_true[k]}
        negatives == {k \in DOMAIN y_true : ~y_true[k]}
    IN  IF positives = {} \/ negatives = {}
        THEN [outcome |-> "ValueError", value |-> <<>>]
        ELSE LET thresholds == Range(y_score)
                 tps(t) == Cardinality({k \in positives : y_score[k] <= t})
                 fps(t) == Cardinality({k \in negatives : y_score[k] <= t})
                 tps_before(t) == Cardinality({k \in positives : y_score[k] < t})
                 fps_before(t) == Cardinality({k \in negatives : y_score[k] < t})
                 twice_area == SumOver(thresholds,
                     [t \in thresholds |->
                         (fps(t) - fps_before(t)) * (tps(t) + tps_before(t))])
             IN  [outcome |-> "returned",
                  value |-> <<Frac(twice_area,
                                   2 * Cardinality(positives) * Cardinality(negatives))>>]

\* sklearn's roc_auc_score(y_true, y_score): the area under the ROC curve by
\* the trapezoidal rule.  The curve has one point per distinct score t, taken
\* from the highest down: (false positives, true positives) among the
\* candidates scored >= t.  With one class only in y_true it raises ValueError.
roc_auc_score(y_true, y_score) ==
    LET positives == {k \in DOMAIN y_true : y_true[k]}
        negatives == {k \in DOMAIN y_true : ~y_true[k]}
    IN  IF positives = {} \/ negatives = {}
        THEN [outcome |-> "ValueError", value |-> <<>>]
        ELSE LET thresholds == Range(y_score)
                 tps(t) == Cardinality({k \in positives : y_score[k] >= t})
                 fps(t) == Cardinality({k \in negatives : y_score[k] >= t})
                 \* the point before t on the curve: the candidates scored > t
                 tps_before(t) == Cardinality({k \in positives : y_score[k] > t})
                 fps_before(t) == Cardinality({k \in negatives : y_score[k] > t})
                 twice_area == SumOver(thresholds,
                     [t \in thresholds |->
                         (fps(t) - fps_before(t)) * (tps(t) + tps_before(t))])
             IN  [outcome |-> "returned",
                  value |-> <<Frac(twice_area,
                                   2 * Cardinality(positives) * Cardinality(negatives))>>]

(***************************************************************************)
(* average_roc_auc (cell 19).                                              *)
(***************************************************************************)
\* The mutant of at_least_one_positive: the guard lets every user through.
at_least_zero_positive(expected) == np_sum(expected) >= 0

\* if np.sum(expected) >= 1
at_least_one_positive(expected) == np_sum(expected) >= 1

\* The mutant of mean_of_scores: an empty list averages to 0.
mean_of_scores_or_zero(user_auc_scores) ==
    IF Len(user_auc_scores) = 0
    THEN [outcome |-> "returned", value |-> <<<<0, 1>>>>]
    ELSE LET total == py_sum(user_auc_scores)
         IN  [outcome |-> "returned",
              value |-> <<Frac(total[1], total[2] * Len(user_auc_scores))>>]

\* return sum(user_auc_scores) / len(user_auc_scores): 0 / 0 raises
\* ZeroDivisionError
mean_of_scores(user_auc_scores) ==
    IF Len(user_auc_scores) = 0
    THEN [outcome |-> "ZeroDivisionError", value |-> <<>>]
    ELSE LET total == py_sum(user_auc_scores)
         IN  [outcome |-> "returned",
              value |-> <<Frac(total[1], total[2] * Len(user_auc_scores))>>]

\* One pass of the loop body for user_id: what the pass computed (the
\* candidates, their labels, whether predict was called) and the AUC, if any.
user_pass(data_train, data_test, top_item_id, user_id) ==
    LET pos_item_train == rows_of_user(data_train, user_id)
        pos_item_test == rows_of_user(data_test, user_id)
        all_item_ids == np_arange(1, top_item_id + 1)
        items_to_rank == np_setdiff1d(all_item_ids, column(pos_item_train, "item_id"))
        expected == np_in1d(items_to_rank, column(pos_item_test, "item_id"))
        ranked == at_least_one_positive(expected)
        repeated_user_id == [k \in DOMAIN items_to_rank |-> user_id]
        predicted == match_model_predict(repeated_user_id, items_to_rank)
    IN  [user_id |-> user_id,
         items_to_rank |-> items_to_rank,
         expected |-> expected,
         ranked |-> ranked,
         auc |-> IF ranked THEN roc_auc_score(expected, predicted)
                 ELSE [outcome |-> "skipped", value |-> <<>>]]

\* for user_id in range(first, max_user_id + 1): ..., then the return.
\* passes: the loop passes so far; user_auc_scores: the list so far.
RECURSIVE user_loop(_, _, _, _, _, _, _)
user_loop(data_train, data_test, top_user_id, top_item_id, first, passes, user_auc_scores) ==
    IF first > top_user_id
    THEN LET mean == mean_of_scores(user_auc_scores)
         IN  [outcome |-> mean.outcome, value |-> mean.value,
              passes |-> passes, user_auc_scores |-> user_auc_scores]
    ELSE LET pass == user_pass(data_train, data_test, top_item_id, first)
         IN  IF pass.auc.outcome = "ValueError"
             THEN [outcome |-> "ValueError", value |-> <<>>,
                   passes |-> Append(passes, pass), user_auc_scores |-> user_auc_scores]
             ELSE user_loop(data_train, data_test, top_user_id, top_item_id, first + 1,
                            Append(passes, pass),
                            IF pass.ranked
                            THEN Append(user_auc_scores, pass.auc.value[1])
                            ELSE user_auc_scores)

\* average_roc_auc(match_model, data_train, data_test): how the call ends
\* (outcome: returned, or the exception raised), the value returned, the loop
\* passes made and the per-user scores collected.  With both tables or the
\* training table empty max_user_id is NaN and range() raises TypeError.
average_roc_auc(data_train, data_test) ==
    LET top_user_id == py_max(column_max(data_train, "user_id"),
                              column_max(data_test, "user_id"))
        top_item_id == py_max(column_max(data_train, "item_id"),
                              column_max(data_test, "item_id"))
    IN  IF top_user_id = NaN
        THEN [outcome |-> "TypeError", value |-> <<>>,
              passes |-> <<>>, user_auc_scores |-> <<>>]
        ELSE user_loop(data_train, data_test, top_user_id, top_item_id, 1, <<>>, <<>>)

\* a table with its rows in increasing (user_id, item_id) order, none repeated
StrictlySorted(table) ==
    \A k \in 1..(Len(table) - 1) :
        \/ table[k].user_id < table[k + 1].user_id
        \/ /\ table[k].user_id = table[k + 1].user_id
           /\ table[k].item_id < table[k + 1].item_id

\* average_roc_auc reads a table through its rows only, not their order or
\* number of repeats: one table is drawn per set of rows
EvalTables == {t \in Tables : StrictlySorted(t)}

\* The scenario of the specification: user 1 has training positive 10 and
\* test positive 20, user 2 has training positive 5 and no test positive.
ScenarioTrain == <<Row(1, 10), Row(2, 5)>>
ScenarioTest == <<Row(1, 20)>>
\* item weights for the scenario: the ids that are multiples of n weigh 1
ScenarioItemWeights ==
    {[i \in 0..20 |-> IF i % n = 0 THEN 1 ELSE 0 - 1] : n \in 1..MaxItem}

InitEval ==
    /\ \/ /\ pos_data_train \in EvalTables
          /\ pos_data_test \in EvalTables
          /\ user_embedding \in EmbeddingTables(MaxUser)
          /\ item_embedding \in EmbeddingTables(MaxItem)
          /\ max_item_id = MaxItem
       \/ /\ pos_data_train = ScenarioTrain
          /\ pos_data_test = ScenarioTest
          /\ user_embedding \in EmbeddingTables(2)
          /\ item_embedding \in ScenarioItemWeights
          /\ max_item_id = 20
    /\ test_auc = <<>>

\* test_auc = average_roc_auc(match_model, pos_data_train, pos_data_test)
Evaluate ==
    /\ test_auc = <<>>
    /\ test_auc' = <<average_roc_auc(pos_data_train, pos_data_test)>>
    /\ UNCHANGED <<dataVars, modelVars, yearVars, lossVars, samplerVars, loopVars>>

(***************************************************************************)
(* triplet_model.fit (cell 27).                                            *)
(*                                                                         *)
(* The optimizer is Keras's: one pass may leave any weights in the two     *)
(* Embedding layers of the triplet model.  Row 0, which no id looks up, is *)
(* held at its value.                                                      *)
(***************************************************************************)
fit_weights(weights) ==
    {w \in [DOMAIN weights -> EmbeddingWeights] : w[0] = weights[0]}

\* one entry of history
Step(kind, seed, triplets) ==
    [step |-> kind, epoch |-> epoch, seed |-> seed, triplets |-> triplets]

(***************************************************************************)
(* The training cell (cell 27).                                            *)
(***************************************************************************)
n_epochs == 15

InitLoop ==
    /\ pos_data_train \in Tables \ {<<>>}
    /\ pos_data_test \in {t \in EvalTables : Len(t) <= 1}
    /\ max_item_id = MaxItem
    /\ user_embedding \in EmbeddingTables(MaxUser)
    /\ item_embedding \in EmbeddingTables(MaxItem)
    /\ SamplerIdle
    /\ test_auc = <<>>
    /\ epoch = 0
    /\ pc = "sample"
    /\ history = <<>>

\* The mutant of LoopSample: every epoch samples with seed 0.
LoopSample_seed_zero ==
    /\ pc = "sample"
    /\ LET r == sample_triplets(pos_data_train, max_item_id, 0)
       IN  /\ triplet_inputs' = <<r.out>>
           /\ rng' = <<r.rng>>
           /\ calls' = Append(calls, [seed |-> 0, out |-> r.out])
           /\ history' = Append(history, Step("sample", <<0>>, <<r.out>>))
    /\ pc' = "fit"
    /\ UNCHANGED <<epoch, dataVars, modelVars, evalVars, yearVars, lossVars>>

\* triplet_inputs = sample_triplets(pos_data_train, max_item_id, random_seed=i)
LoopSample ==
    /\ pc = "sample"
    /\ LET r == sample_triplets(pos_data_train, max_item_id, epoch)
       IN  /\ triplet_inputs' = <<r.out>>
           /\ rng' = <<r.rng>>
           /\ calls' = Append(calls, [seed |-> epoch, out |-> r.out])
           /\ history' = Append(history, Step("sample", <<epoch>>, <<r.out>>))
    /\ pc' = "fit"
    /\ UNCHANGED <<epoch, dataVars, modelVars, evalVars, yearVars, lossVars>>

\* triplet_model.fit(triplet_inputs, fake_y, shuffle=True, batch_size=64, epochs=1)
LoopFit ==
    /\ pc = "fit"
    /\ user_embedding' \in fit_weights(user_embedding)
    /\ item_embedding' \in fit_weights(item_embedding)
    /\ history' = Append(history, Step("fit", <<>>, triplet_inputs))
    /\ pc' = "evaluate"
    /\ UNCHANGED <<epoch, dataVars, samplerVars, evalVars, yearVars, lossVars>>

\* test_auc = average_roc_auc(match_model, pos_data_train, pos_data_test), the
\* print, and the loop head: the next i, or the end of the loop.  A call that
\* raises ends the cell.
LoopEvaluate ==
    /\ pc = "evaluate"
    /\ LET r == average_roc_auc(pos_data_train, pos_data_test)
       IN  /\ test_auc' = <<r>>
           /\ IF r.outcome # "returned"
              THEN pc' = "raised" /\ epoch' = epoch
              ELSE IF epoch + 1 < n_epochs
                   THEN pc' = "sample" /\ epoch' = epoch + 1
                   ELSE pc' = "done" /\ epoch' = epoch
    /\ history' = Append(history, Step("evaluate", <<>>, <<>>))
    /\ UNCHANGED <<dataVars, modelVars, samplerVars, yearVars, lossVars>>

(***************************************************************************)
(* The evaluation cell and the fit, run again and again in any order       *)
(* (cells 21 and 27), on triplets sampled once.                            *)
(***************************************************************************)
InitRun ==
    /\ pos_data_train \in EvalTables
    /\ pos_data_test \in EvalTables
    /\ max_item_id = MaxItem
    /\ user_embedding \in EmbeddingTables(MaxUser)
    /\ item_embedding \in EmbeddingTables(MaxItem)
    /\ LET r == sample_triplets(pos_data_train, max_item_id, 0)
       IN  /\ triplet_inputs = <<r.out>>
           /\ rng = <<r.rng>>
           /\ calls = <<[seed |-> 0, out |-> r.out]>>
    /\ test_auc = <<>>

\* test_auc = average_roc_auc(match_model, pos_data_train, pos_data_test)
RunEvaluate ==
    /\ Len(history) < MaxSteps
    /\ test_auc' = <<average_roc_auc(pos_data_train, pos_data_test)>>
    /\ history' = Append(history, Step("evaluate", <<>>, <<>>))
    /\ UNCHANGED <<epoch, pc, dataVars, modelVars, samplerVars, yearVars, lossVars>>

\* triplet_model.fit(triplet_inputs, fake_y, shuffle=True, batch_size=64, epochs=1)
RunFit ==
    /\ Len(history) < MaxSteps
    /\ user_embedding' \in fit_weights(user_embedding)
    /\ item_embedding' \in fit_weights(item_embedding)
    /\ history' = Append(history, Step("fit", <<>>, triplet_inputs))
    /\ UNCHANGED <<epoch, pc, dataVars, samplerVars, evalVars, yearVars, lossVars>>

(***************************************************************************)
(* Specifications: one per function, its arguments drawn by Init.          *)
(***************************************************************************)
ModelIdle == user_embedding = <<>> /\ item_embedding = <<>>
EvalIdle == test_auc = <<>>
LoopIdle == epoch = 0 /\ pc = "idle" /\ history = <<>>

InitYearSpec ==
    InitYear /\ LossIdle /\ DataIdle /\ ModelIdle /\ SamplerIdle /\ EvalIdle /\ LoopIdle
NextYear == ExtractYear
SpecYear == InitYearSpec /\ [][NextYear]_vars

InitLossSpec ==
    InitLoss /\ YearIdle /\ DataIdle /\ ModelIdle /\ SamplerIdle /\ EvalIdle /\ LoopIdle
NextLoss ==
    \/ LossDefaultMargin
    \/ \E m \in Margins : LossWithMargin(m)
SpecLoss == InitLossSpec /\ [][NextLoss]_vars

InitSamplerSpec ==
    InitSampler /\ YearIdle /\ LossIdle /\ ModelIdle /\ EvalIdle /\ LoopIdle
NextSampler == \E seed \in Seeds : SampleTriplets(seed)
SpecSampler == InitSamplerSpec /\ [][NextSampler]_vars

InitEvalSpec == InitEval /\ YearIdle /\ LossIdle /\ SamplerIdle /\ LoopIdle
NextEval == Evaluate
SpecEval == InitEvalSpec /\ [][NextEval]_vars

InitLoopSpec == InitLoop /\ YearIdle /\ LossIdle
NextLoop ==
    \/ LoopSample
    \/ LoopFit
    \/ LoopEvaluate
SpecLoop == InitLoopSpec /\ [][NextLoop]_vars

InitRunSpec == InitRun /\ YearIdle /\ LossIdle /\ LoopIdle
NextRun ==
    \/ RunEvaluate
    \/ RunFit
SpecRun == InitRunSpec /\ [][NextRun]_vars

(***************************************************************************)
(* The claims.                                                             *)
(***************************************************************************)

\* C1 (SpecSampler): every call of sample_triplets returns exactly three
\* sequences, each as long as the positive table; position k of the first is
\* row k's user_id and position k of the second is row k's item_id.
C1_TripletsFollowTheTable ==
    \A c \in Range(calls) :
        /\ Len(c.out) = 3
        /\ \A j \in 1..3 : Len(c.out[j]) = Len(pos_data_train)
        /\ \A k \in DOMAIN pos_data_train :
              /\ c.out[1][k] = pos_data_train[k].user_id
              /\ c.out[2][k] = pos_data_train[k].item_id

\* C1 witness: a call on a two-row table whose rows are not in sorted order
\* and whose first row has a user id different from its item id.
C1_Witness ==
    /\ calls # <<>>
    /\ Len(pos_data_train) = 2
    /\ pos_data_train[1].user_id > pos_data_train[2].user_id
    /\ pos_data_train[1].item_id # pos_data_train[1].user_id

\* C2 (SpecSampler): every negative item id of every call lies in
\* 1..max_item_id (never 0, never max_item_id + 1).
C2_NegativesInRange ==
    \A c \in Range(calls) :
        \A k \in DOMAIN c.out[3] :
            /\ c.out[3][k] >= 1
            /\ c.out[3][k] <= max_item_id
            /\ c.out[3][k] # 0
            /\ c.out[3][k] # max_item_id + 1

\* C2 witness: with more than one item id to draw from, one call drew both
\* the smallest id, 1, and the largest, max_item_id.
C2_Witness ==
    /\ max_item_id > 1
    /\ \E c \in Range(calls) :
          /\ \E k \in DOMAIN c.out[3] : c.out[3][k] = max_item_id
          /\ \E k \in DOMAIN c.out[3] : c.out[3][k] = 1

\* C3 (SpecSampler): two calls with the same seed (on the same table and
\* max_item_id) returned the same three sequences, whatever was called in
\* between.
C3_SameSeedSameTriplets ==
    \A i, j \in DOMAIN calls :
        calls[i].seed = calls[j].seed => calls[i].out = calls[j].out

\* C3 witness: a seed was used, then another seed that drew other negatives,
\* then the first seed again, on a table with rows to draw for.
C3_Witness ==
    /\ Len(calls) >= 3
    /\ pos_data_train # <<>>
    /\ calls[1].seed = calls[3].seed
    /\ calls[2].seed # calls[1].seed
    /\ calls[2].out # calls[1].out

\* C4 (SpecLoss): margin_comparator_loss returns max(n - p + m, 0): never
\* negative, 0 whenever n + m <= p, and n - p + m > 0 whenever n + m > p;
\* a call that gives no margin uses margin 1.
C4_LossIsHinge ==
    loss # <<>> =>
        LET p == inputs[1]
            n == inputs[2]
            m == IF margin_given = <<>> THEN SimScale ELSE margin_given[1]
        IN  /\ loss[1] >= 0
            /\ n + m <= p => loss[1] = 0
            /\ n + m > p => loss[1] = n - p + m /\ loss[1] > 0

\* C4 witness: a call with the default margin whose negative similarity is
\* below the positive one, by less than the margin, so that the loss is
\* positive and smaller than the margin.
C4_Witness ==
    /\ loss # <<>>
    /\ margin_given = <<>>
    /\ inputs[2] < inputs[1]
    /\ loss[1] > 0
    /\ loss[1] < SimScale

(***************************************************************************)
(* average_roc_auc, restated on sets for the claims below.                 *)
(***************************************************************************)
TrainPositives(u) ==
    {pos_data_train[k].item_id : k \in {j \in DOMAIN pos_data_train :
                                           pos_data_train[j].user_id = u}}
TestPositives(u) ==
    {pos_data_test[k].item_id : k \in {j \in DOMAIN pos_data_test :
                                          pos_data_test[j].user_id = u}}
\* the users and items of the two tables
KnownUsers == Range(column(pos_data_train, "user_id")) \cup Range(column(pos_data_test, "user_id"))
KnownItems == Range(column(pos_data_train, "item_id")) \cup Range(column(pos_data_test, "item_id"))
\* 1..max_user_id and 1..max_item_id as average_roc_auc computes the two maxima
UpToLargest(S) == IF S = {} THEN {} ELSE 1..(CHOOSE m \in S : \A x \in S : x <= m)
AllUsers == UpToLargest(KnownUsers)
AllItems == UpToLargest(KnownItems)
Candidates(u) == AllItems \ TrainPositives(u)
Label1(u) == Candidates(u) \cap TestPositives(u)
Label0(u) == Candidates(u) \ TestPositives(u)
Eligible == {u \in AllUsers : Label1(u) # {}}
Score(u, i) == match_model_predict(<<u>>, <<i>>)[1]

\* the AUC of user u by counting pairs: the share of (label-1, label-0) pairs
\* that the score orders rightly, a tie counting for half
PairAUC(u) ==
    LET pairs == Label1(u) \X Label0(u)
        wins == Cardinality({pr \in pairs : Score(u, pr[1]) > Score(u, pr[2])})
        ties == Cardinality({pr \in pairs : Score(u, pr[1]) = Score(u, pr[2])})
    IN  Frac(2 * wins + ties, 2 * Cardinality(pairs))

RECURSIVE SumPairAUC(_)
SumPairAUC(S) ==
    IF S = {} THEN <<0, 1>>
    ELSE LET u == CHOOSE v \in S : TRUE
         IN  FracAdd(PairAUC(u), SumPairAUC(S \ {u}))

MeanPairAUC(S) ==
    LET total == SumPairAUC(S) IN Frac(total[1], total[2] * Cardinality(S))

\* the loop went through every user: 1, 2, ..., max_user_id, in this order
EveryUserPassed(r) ==
    /\ Len(r.passes) = Cardinality(AllUsers)
    /\ \A k \in DOMAIN r.passes : r.passes[k].user_id = k

\* C5 (SpecEval): for every user the loop reaches, the candidates are exactly
\* the item ids of 1..max_item_id that are not training positives of the
\* user, each once, and a candidate is labelled 1 iff it is a test positive of
\* the user; a call that gets to its return statement has reached every user
\* of 1..max_user_id.
C5_CandidatesAndLabels ==
    test_auc # <<>> =>
        LET r == test_auc[1]
        IN  /\ \A ps \in Range(r.passes) :
                  /\ Range(ps.items_to_rank) = Candidates(ps.user_id)
                  /\ Len(ps.items_to_rank) = Cardinality(Candidates(ps.user_id))
                  /\ Range(ps.items_to_rank) \cap TrainPositives(ps.user_id) = {}
                  /\ DOMAIN ps.expected = DOMAIN ps.items_to_rank
                  /\ \A k \in DOMAIN ps.items_to_rank :
                        ps.expected[k] <=> ps.items_to_rank[k] \in TestPositives(ps.user_id)
            /\ r.outcome \in {"returned", "ZeroDivisionError"} => EveryUserPassed(r)

\* C5 witness: a call that returned after scoring, for a user with a training
\* positive, a candidate that is in neither table for any user, while another
\* user has a training positive that is a candidate of this user.
C5_Witness ==
    /\ test_auc # <<>>
    /\ test_auc[1].outcome = "returned"
    /\ \E ps \in Range(test_auc[1].passes) :
          /\ ps.ranked
          /\ TrainPositives(ps.user_id) # {}
          /\ \E i \in Range(ps.items_to_rank) : i \notin KnownItems
          /\ \E u \in AllUsers : TrainPositives(u) \cap Range(ps.items_to_rank) # {}

\* C6 (SpecEval): a user is scored iff one of its candidates is labelled 1,
\* and a call that returns returns the mean of the AUC of exactly these
\* users (one score per such user, none for the others); in the scenario
\* (user 1: training {10}, test {20}; user 2: training {5}, no test) the
\* call returns the AUC of user 1.
C6_MeanOverEligibleUsers ==
    test_auc # <<>> =>
        LET r == test_auc[1]
        IN  /\ \A ps \in Range(r.passes) :
                  ps.ranked <=> \E k \in DOMAIN ps.expected : ps.expected[k]
            /\ r.outcome = "returned" =>
                  /\ Len(r.user_auc_scores) = Cardinality(Eligible)
                  /\ r.value = <<MeanPairAUC(Eligible)>>
            /\ pos_data_train = ScenarioTrain /\ pos_data_test = ScenarioTest =>
                  /\ r.outcome = "returned"
                  /\ r.user_auc_scores = <<PairAUC(1)>>
                  /\ r.value = <<PairAUC(1)>>

\* C6 witness: the scenario evaluated, with an AUC of user 1 that is neither
\* 0 nor 1, and user 2 passed unscored.
C6_Witness ==
    /\ test_auc # <<>>
    /\ pos_data_train = ScenarioTrain
    /\ pos_data_test = ScenarioTest
    /\ test_auc[1].outcome = "returned"
    /\ test_auc[1].value \notin {<<<<0, 1>>>>, <<<<1, 1>>>>}
    /\ Len(test_auc[1].passes) = 2
    /\ ~test_auc[1].passes[2].ranked

\* C7 as stated (SpecEval): a user is scored iff it has at least one positive
\* interaction in the test table.
C7_ScoredIffTestPositive ==
    test_auc # <<>> =>
        \A ps \in Range(test_auc[1].passes) :
            ps.ranked <=> TestPositives(ps.user_id) # {}

\* C7 amended (SpecEval): a user is scored iff it has at least one positive
\* test item that is not one of its training positives; a call that returns
\* averages one AUC per such user.
C7_ScoredIffUnseenTestPositive ==
    test_auc # <<>> =>
        LET r == test_auc[1]
            unseen(u) == TestPositives(u) \ TrainPositives(u)
        IN  /\ \A ps \in Range(r.passes) : ps.ranked <=> unseen(ps.user_id) # {}
            /\ r.outcome = "returned" =>
                  Len(r.user_auc_scores) = Cardinality({u \in AllUsers : unseen(u) # {}})

\* C7 witness: a call that returned, in which one user was scored and another,
\* whose test positives are all training positives of its own, was not.
C7_Witness ==
    /\ test_auc # <<>>
    /\ test_auc[1].outcome = "returned"
    /\ \E ps \in Range(test_auc[1].passes) : ps.ranked
    /\ \E ps \in Range(test_auc[1].passes) :
          /\ ~ps.ranked
          /\ TestPositives(ps.user_id) # {}
          /\ TestPositives(ps.user_id) \subseteq TrainPositives(ps.user_id)

\* C8 (SpecEval): when no user has a candidate labelled 1, the call ends in
\* an exception and returns no value.
C8_NoEligibleUserRaises ==
    test_auc # <<>> /\ Eligible = {} =>
        /\ test_auc[1].outcome \in {"ZeroDivisionError", "TypeError"}
        /\ test_auc[1].value = <<>>

\* C8 witness: a call on a training table of two users and an empty test
\* table went through both users, scored neither, and ended in
\* ZeroDivisionError.
C8_Witness ==
    /\ test_auc # <<>>
    /\ pos_data_test = <<>>
    /\ Eligible = {}
    /\ test_auc[1].outcome = "ZeroDivisionError"
    /\ Len(test_auc[1].passes) = 2
    /\ test_auc[1].user_auc_scores = <<>>

\* the scoring function puts every label-1 candidate of every user strictly
\* above every label-0 candidate of the same user
PerfectScores ==
    \A u \in AllUsers : \A a \in Label1(u) : \A b \in Label0(u) :
        Score(u, a) > Score(u, b)

\* C9 (SpecEval): under such a scoring function every AUC computed is exactly
\* 1 and a call that returns returns exactly 1; the call does not return only
\* where no AUC or no mean exists (no row in the training table, no user with
\* a label-1 candidate, or a scored user without a label-0 candidate).
C9_PerfectScoresGiveOne ==
    test_auc # <<>> /\ PerfectScores =>
        LET r == test_auc[1]
        IN  /\ \A k \in DOMAIN r.user_auc_scores : r.user_auc_scores[k] = <<1, 1>>
            /\ r.outcome = "returned" => r.value = <<<<1, 1>>>>
            /\ r.outcome # "returned" =>
                  \/ pos_data_train = <<>>
                  \/ Eligible = {}
                  \/ \E u \in Eligible : Label0(u) = {}

\* C9 witness: a call that returned 1 from the scores of two users, under a
\* scoring function as above.
C9_Witness ==
    /\ test_auc # <<>>
    /\ PerfectScores
    /\ test_auc[1].outcome = "returned"
    /\ Len(test_auc[1].user_auc_scores) = 2
    /\ test_auc[1].value = <<<<1, 1>>>>

\* a well-formed release date: a str of three '-'-separated components whose
\* third is an integer
WellFormedDate(v) ==
    /\ v.isstr
    /\ Cardinality({k \in DOMAIN v.chars : v.chars[k] = "-"}) = 2
    /\ LET last == CHOOSE k \in DOMAIN v.chars :
                      v.chars[k] = "-" /\ \A j \in DOMAIN v.chars : j > k => v.chars[j] # "-"
       IN  /\ last < Len(v.chars)
           /\ \A j \in (last + 1)..Len(v.chars) : v.chars[j] \in Digits

YearOf(v) ==
    LET last == CHOOSE k \in DOMAIN v.chars :
                   v.chars[k] = "-" /\ \A j \in DOMAIN v.chars : j > k => v.chars[j] # "-"
    IN  DecimalValue(SubSeq(v.chars, last + 1, Len(v.chars)))

\* C10 (SpecYear): extract_year never fails: it returns 1920 for every value
\* that is not a well-formed date and the third component of a well-formed
\* one.
C10_NeverFails ==
    release_year # <<>> =>
        /\ release_year[1].outcome = "returned"
        /\ release_year[1].value =
              IF WellFormedDate(release_date) THEN YearOf(release_date) ELSE 1920


\* a step that called average_roc_auc, and a state whose latest step did
EvaluateStep ==
    /\ Len(history') = Len(history) + 1
    /\ history'[Len(history')].step = "evaluate"
LatestIsEvaluate == history # <<>> /\ history[Len(history)].step = "evaluate"

\* C11 (SpecRun): a call of average_roc_auc changes neither the embedding
\* tables nor the training and test tables, and a call that follows another
\* call with no fit step in between ends as that one did: the same value
\* returned (or the same exception raised).
C11_EvaluationIdempotentReadOnly ==
    [][EvaluateStep =>
          /\ UNCHANGED <<user_embedding, item_embedding>>
          /\ UNCHANGED <<pos_data_train, pos_data_test>>
          /\ LatestIsEvaluate => test_auc' = test_auc]_vars

\* C11 witness: after a fit, two calls one after the other, the second of
\* which returned an AUC that is neither 0, 1/2 nor 1.
C11_Witness ==
    /\ Len(history) = 3
    /\ history[1].step = "fit"
    /\ history[2].step = "evaluate"
    /\ history[3].step = "evaluate"
    /\ test_auc[1].outcome = "returned"
    /\ test_auc[1].value[1] \notin {<<0, 1>>, <<1, 2>>, <<1, 1>>}

\* the step the k-th step of the training loop is to be, and its iteration
StepKind(k) == <<"sample", "fit", "evaluate">>[((k - 1) % 3) + 1]
StepEpoch(k) == (k - 1) \div 3

\* the steps made so far are the first steps of the schedule: in iteration i
\* a sampling with seed i, a fit on what that sampling returned, an
\* evaluation; the iterations are 0, 1, 2, ..., never more than n_epochs, and
\* each sampling's seed is larger than the one before
FollowsSchedule ==
    /\ Len(history) <= 3 * n_epochs
    /\ \A k \in DOMAIN history :
          /\ history[k].step = StepKind(k)
          /\ history[k].epoch = StepEpoch(k)
          /\ history[k].epoch \in 0..(n_epochs - 1)
          /\ history[k].step = "sample" =>
                /\ history[k].seed = <<StepEpoch(k)>>
                /\ k > 3 => history[k - 3].seed[1] < history[k].seed[1]
          /\ history[k].step = "fit" =>
                /\ history[k - 1].step = "sample"
                /\ history[k - 1].epoch = history[k].epoch
                /\ history[k].triplets = history[k - 1].triplets

\* the loop has stopped: the cell stands at none of its three steps
LoopStopped == pc \notin {"sample", "fit", "evaluate"}

GeneratorSeeds == 0..15

UserIds == DOMAIN user_embedding \ {0}
ItemIds == DOMAIN item_embedding \ {0}

\* C14 (SpecLoop): in every state of the training loop, however many fit
\* steps were made, the positive and the negative branch of the triplet
\* model encode every item id to the same vector and so give a pair the same
\* similarity (a triplet whose negative is its positive has loss = margin);
\* the match model's score of every pair is the triplet model's positive
\* similarity of that pair; and the latest evaluation, until the next fit,
\* is the evaluation of the tables as the latest fit left them.
C14_SharedEmbeddingTables ==
    /\ \A item_id \in ItemIds :
          /\ positive_item_embedding(<<item_id>>) = negative_item_embedding(<<item_id>>)
          /\ positive_item_embedding(<<item_id>>) = <<item_embedding[item_id]>>
    /\ \A user_id \in UserIds :
          \A item_id \in ItemIds :
              /\ match_model_predict(<<user_id>>, <<item_id>>)
                    = positive_similarity(<<user_id>>, <<item_id>>)
              /\ negative_similarity(<<user_id>>, <<item_id>>)
                    = positive_similarity(<<user_id>>, <<item_id>>)
              /\ triplet_model_predict(<<<<user_id>>, <<item_id>>, <<item_id>>>>)
                    = <<DefaultMargin>>
    /\ LatestIsEvaluate =>
          test_auc = <<average_roc_auc(pos_data_train, pos_data_test)>>

\* C14 witness: after the fit of a later iteration, with weights of both
\* signs in both tables, the evaluation of the iteration before is no longer
\* the evaluation of the tables: the fit has changed what the evaluator sees.
C14_Witness ==
    /\ pc = "evaluate"
    /\ epoch >= 1
    /\ \E u1, u2 \in UserIds : user_embedding[u1] # user_embedding[u2]
    /\ \E i1, i2 \in ItemIds : item_embedding[i1] # item_embedding[i2]
    /\ test_auc[1].outcome = "returned"
    /\ average_roc_auc(pos_data_train, pos_data_test).value # test_auc[1].value

\* C15 (SpecEval): every user the call does not skip has a label-0 candidate
\* besides its label-1 candidates, and its AUC is computed; and the call
\* skips no user that has a label-1 candidate.
C15_ScoredUsersHaveBothLabels ==
    test_auc # <<>> =>
        \A ps \in Range(test_auc[1].passes) :
            /\ ps.ranked =>
                  /\ \E k \in DOMAIN ps.expected : ps.expected[k]
                  /\ \E k \in DOMAIN ps.expected : ~ps.expected[k]
                  /\ Label0(ps.user_id) # {}
                  /\ ps.auc.outcome = "returned"
            /\ Label1(ps.user_id) # {} => ps.ranked
=============================================================================
